---- MODULE Spec2Model ----
(***************************************************************************)
(* Application lifecycle, requirement validation and document guard of the *)
(* dinsos portal server (server/src/handlers).  The relational store is    *)
(* modelled as two tables (applications, application_documents), the       *)
(* immutable services table and the upload directory; every handler is a   *)
(* sequence of atomic SQL statements, one model step per awaited statement.*)
(***************************************************************************)
EXTENDS Integers, Sequences, FiniteSets, TLC

\* ------------------------------------------------------------------ bounds
MaxTime  == 3      \* clock values 1..MaxTime
MaxApps  == 2      \* rows the applications serial may hand out
MaxDocs  == 2      \* rows the application_documents serial may hand out
MaxCalls == 4      \* handler invocations in one behaviour (interleaved runs)
MaxSeqCalls == 3   \* handler invocations in one behaviour (sequential runs)
MaxLen   == 3      \* longest required-document list given to the validator
MaxLifeCalls == 5  \* handler invocations in one behaviour (lifecycle runs)

Procs == {"p1", "p2"}

\* ------------------------------------------------------------ vocabulary
Statuses == {"DRAFT", "SUBMITTED", "UNDER_REVIEW", "REQUIRES_DOCUMENTS",
             "APPROVED", "REJECTED"}

\* three of the nine tags of document_type are enough to tell required,
\* repeated and unsupported tags apart
DocTypes == {"SKCK", "HEALTH_CERTIFICATE", "PHOTO"}

NullTime == 0
NullUser == 0
NullText == "NULL"
Undefined == "undefined"
UndefinedUser == -1

\* rows of the services table (no handler of the model changes it); service
\* id 4 is a service_id no row carries
Services ==
  1 :> [required_documents |-> <<"SKCK", "HEALTH_CERTIFICATE">>] @@
  2 :> [required_documents |-> <<>>] @@
  3 :> [required_documents |-> <<"PHOTO">>]

ServiceIds == {1, 2, 3, 4}
AppIds  == 1..(MaxApps + 1)
DocIds  == 1..(MaxDocs + 1)
Paths   == {"/uploads/a.pdf", "/uploads/b.pdf"}
StaffIds == {7}

VARIABLES
  applications,   \* sequence of rows of applicationsTable, id = index
  documents,      \* set of rows of applicationDocumentsTable
  nextDocId,      \* serial of application_documents.id
  files,          \* paths that exist in the upload directory
  now,            \* the clock
  call,           \* per request slot: the handler in flight and its locals
  ret,            \* what the call completed by the last step returned
  calls,          \* handler invocations so far
  validator       \* inputs and output of the requirement validator

vars == <<applications, documents, nextDocId, files, now, call, ret, calls, validator>>

Range(s) == {s[i] : i \in DOMAIN s}

Idle == [pc |-> "idle", id |-> 0, t |-> 0, path |-> "", type |-> ""]
NoRet == [op |-> "none", kind |-> "none", id |-> 0]

IdleValidator == [required |-> <<>>, uploaded |-> {}, missing |-> <<>>, done |-> FALSE]

AppExists(id) == id \in DOMAIN applications
ServiceOf(id) == applications[id].service_id
ServiceExists(id) == AppExists(id) /\ ServiceOf(id) \in DOMAIN Services
DocsOf(id) == {d \in documents : d.application_id = id}

\* a logical clock: every reading is later than the one before it, until the
\* last value MaxTime is reached
ClockRead(t) == t = (IF now < MaxTime THEN now + 1 ELSE now) /\ now' = t

Init ==
  /\ applications = <<>>
  /\ documents = {}
  /\ nextDocId = 1
  /\ files = {}
  /\ now = 0
  /\ call = [p \in Procs |-> Idle]
  /\ ret = NoRet
  /\ calls = 0
  /\ validator = IdleValidator

\* --------------------------------------------------------- createApplication
CreateInputs == [service_id : ServiceIds, applicant_id : {1},
                 application_data : {"d1"}, notes : {NullText, "n1"}]

\* variant of the inserted row that drops the applicant's notes
NewApplicationWithoutNotes(input, t) ==
  [service_id |-> input.service_id, applicant_id |-> input.applicant_id,
   status |-> "DRAFT", application_data |-> input.application_data,
   notes |-> NullText, staff_notes |-> NullText,
   submitted_at |-> NullTime, reviewed_at |-> NullTime, reviewed_by |-> NullUser,
   created_at |-> t, updated_at |-> t]

NewApplication(input, t) ==
  [service_id |-> input.service_id, applicant_id |-> input.applicant_id,
   status |-> "DRAFT", application_data |-> input.application_data,
   notes |-> input.notes, staff_notes |-> NullText,
   submitted_at |-> NullTime, reviewed_at |-> NullTime, reviewed_by |-> NullUser,
   created_at |-> t, updated_at |-> t]

CreateApplication(p, input) ==
  /\ call[p].pc = "idle"
  /\ Len(applications) < MaxApps
  /\ \E t \in 1..MaxTime :
       /\ ClockRead(t)
       /\ applications' = Append(applications, NewApplication(input, t))
       /\ ret' = [op |-> "create", kind |-> "ok",
                  id |-> Len(applications) + 1, input |-> input]
  /\ calls' = calls + 1
  /\ UNCHANGED <<documents, nextDocId, files, call, validator>>

\* --------------------------------------------------------- updateApplication
UpdateInputs == [id : AppIds, status : Statuses \cup {Undefined},
                 application_data : {Undefined, "d2"},
                 notes : {Undefined, NullText, "n2"},
                 staff_notes : {Undefined, NullText, "s1"},
                 reviewed_by : {UndefinedUser, NullUser} \cup StaffIds]

\* requests that touch status and reviewed_by only
StatusInputs == {i \in UpdateInputs : /\ i.application_data = Undefined
                                      /\ i.notes = Undefined
                                      /\ i.staff_notes = Undefined}

\* JavaScript truthiness of input.reviewed_by
Truthy(reviewed_by) == reviewed_by # UndefinedUser /\ reviewed_by # NullUser

\* variant that counts only the two decisions as a review
ReviewStatusDecisions(status) == status \in {"APPROVED", "REJECTED"}

ReviewStatus(status) == status # "DRAFT" /\ status # "SUBMITTED"

Opt(cond, rec) == IF cond THEN rec ELSE <<>>

\* variant that clears submitted_at when the status goes back to DRAFT
UpdateDataClearing(input, t) ==
  Opt(input.status = "DRAFT", [submitted_at |-> NullTime]) @@
  Opt(input.reviewed_by # UndefinedUser
        /\ input.status # Undefined /\ ReviewStatus(input.status),
      [reviewed_at |-> t]) @@
  Opt(input.reviewed_by # UndefinedUser, [reviewed_by |-> input.reviewed_by]) @@
  Opt(input.staff_notes # Undefined, [staff_notes |-> input.staff_notes]) @@
  Opt(input.notes # Undefined, [notes |-> input.notes]) @@
  Opt(input.application_data # Undefined,
      [application_data |-> input.application_data]) @@
  Opt(input.status # Undefined /\ ReviewStatus(input.status)
        /\ Truthy(input.reviewed_by),
      [reviewed_at |-> t, reviewed_by |-> input.reviewed_by]) @@
  Opt(input.status # Undefined /\ input.status = "SUBMITTED",
      [submitted_at |-> t]) @@
  Opt(input.status # Undefined, [status |-> input.status]) @@
  [updated_at |-> t]

\* variant that stamps reviewed_at whenever reviewed_by is supplied
UpdateDataStampingReviewer(input, t) ==
  Opt(input.reviewed_by # UndefinedUser, [reviewed_at |-> t]) @@
  Opt(input.reviewed_by # UndefinedUser
        /\ input.status # Undefined /\ ReviewStatus(input.status),
      [reviewed_at |-> t]) @@
  Opt(input.reviewed_by # UndefinedUser, [reviewed_by |-> input.reviewed_by]) @@
  Opt(input.staff_notes # Undefined, [staff_notes |-> input.staff_notes]) @@
  Opt(input.notes # Undefined, [notes |-> input.notes]) @@
  Opt(input.application_data # Undefined,
      [application_data |-> input.application_data]) @@
  Opt(input.status # Undefined /\ ReviewStatus(input.status)
        /\ Truthy(input.reviewed_by),
      [reviewed_at |-> t, reviewed_by |-> input.reviewed_by]) @@
  Opt(input.status # Undefined /\ input.status = "SUBMITTED",
      [submitted_at |-> t]) @@
  Opt(input.status # Undefined, [status |-> input.status]) @@
  [updated_at |-> t]

\* the object handed to .set(): later assignments win, as in the handler
UpdateData(input, t) ==
  Opt(input.reviewed_by # UndefinedUser
        /\ input.status # Undefined /\ ReviewStatus(input.status),
      [reviewed_at |-> t]) @@
  Opt(input.reviewed_by # UndefinedUser, [reviewed_by |-> input.reviewed_by]) @@
  Opt(input.staff_notes # Undefined, [staff_notes |-> input.staff_notes]) @@
  Opt(input.notes # Undefined, [notes |-> input.notes]) @@
  Opt(input.application_data # Undefined,
      [application_data |-> input.application_data]) @@
  Opt(input.status # Undefined /\ ReviewStatus(input.status)
        /\ Truthy(input.reviewed_by),
      [reviewed_at |-> t, reviewed_by |-> input.reviewed_by]) @@
  Opt(input.status # Undefined /\ input.status = "SUBMITTED",
      [submitted_at |-> t]) @@
  Opt(input.status # Undefined, [status |-> input.status]) @@
  [updated_at |-> t]

\* variant that keeps the status of a decided application
ApplySetForwardOnly(row, set) ==
  [f \in DOMAIN row |->
     IF f \in DOMAIN set /\ ~(f = "status" /\ row[f] \in {"APPROVED", "REJECTED"})
     THEN set[f] ELSE row[f]]

\* variant that keeps a submitted_at that is already set
ApplySetOnce(row, set) ==
  [f \in DOMAIN row |->
     IF f \in DOMAIN set /\ ~(f = "submitted_at" /\ row[f] # NullTime)
     THEN set[f] ELSE row[f]]

\* variant that skips the columns given as null
ApplySetIgnoringNull(row, set) ==
  [f \in DOMAIN row |->
     IF /\ f \in DOMAIN set
        /\ ~(f \in {"notes", "staff_notes"} /\ set[f] = NullText)
        /\ ~(f = "reviewed_by" /\ set[f] = NullUser)
     THEN set[f] ELSE row[f]]

\* UPDATE ... SET set: the columns named by set are replaced, the rest kept
ApplySet(row, set) ==
  [f \in DOMAIN row |-> IF f \in DOMAIN set THEN set[f] ELSE row[f]]

\* variant of the UPDATE whose WHERE is dropped when no row has the id
UpdateApplicationEverywhere(p, input) ==
  /\ call[p].pc = "idle"
  /\ \E t \in 1..MaxTime :
       /\ ClockRead(t)
       /\ IF AppExists(input.id)
          THEN /\ applications' = [applications EXCEPT ![input.id] =
                                     ApplySet(@, UpdateData(input, t))]
               /\ ret' = [op |-> "update", kind |-> "ok", id |-> input.id,
                          input |-> input]
          ELSE /\ applications' = [id \in DOMAIN applications |->
                                     ApplySet(applications[id], UpdateData(input, t))]
               /\ ret' = [op |-> "update", kind |-> "null", id |-> input.id]
  /\ calls' = calls + 1
  /\ UNCHANGED <<documents, nextDocId, files, call, validator>>

UpdateApplication(p, input) ==
  /\ call[p].pc = "idle"
  /\ \E t \in 1..MaxTime :
       /\ ClockRead(t)
       /\ IF AppExists(input.id)
          THEN /\ applications' = [applications EXCEPT ![input.id] =
                                     ApplySet(@, UpdateData(input, t))]
               /\ ret' = [op |-> "update", kind |-> "ok", id |-> input.id,
                          input |-> input]
          ELSE /\ applications' = applications
               /\ ret' = [op |-> "update", kind |-> "null", id |-> input.id]
  /\ calls' = calls + 1
  /\ UNCHANGED <<documents, nextDocId, files, call, validator>>

\* --------------------------------------------------------- submitApplication
\* variants of the check: one that looks at the first required tag only, one
\* that lists the missing tags last-to-first
MissingDocumentsFirstOnly(requiredDocuments, uploadedDocumentTypes) ==
  IF requiredDocuments = <<>> THEN <<>>
  ELSE SelectSeq(<<requiredDocuments[1]>>,
                 LAMBDA reqDoc : reqDoc \notin uploadedDocumentTypes)

Reverse(s) == [i \in 1..Len(s) |-> s[Len(s) + 1 - i]]

MissingDocumentsReversed(requiredDocuments, uploadedDocumentTypes) ==
  Reverse(SelectSeq(requiredDocuments,
                    LAMBDA reqDoc : reqDoc \notin uploadedDocumentTypes))

MissingDocuments(requiredDocuments, uploadedDocumentTypes) ==
  SelectSeq(requiredDocuments, LAMBDA reqDoc : reqDoc \notin uploadedDocumentTypes)

UploadedDocumentTypes(id) == {d.document_type : d \in DocsOf(id)}

\* SELECT applications INNER JOIN services WHERE applications.id = id
SubmitRead(p, id) ==
  /\ call[p].pc = "idle"
  /\ calls' = calls + 1
  /\ IF ~ServiceExists(id)
     THEN /\ ret' = [op |-> "submit", kind |-> "null", id |-> id]
          /\ call' = call
     ELSE IF applications[id].status # "DRAFT"
     THEN /\ ret' = [op |-> "submit", kind |-> "InvalidTransition", id |-> id]
          /\ call' = call
     ELSE /\ ret' = NoRet
          /\ call' = [call EXCEPT ![p] = [Idle EXCEPT !.pc = "submit_docs", !.id = id]]
  /\ UNCHANGED <<applications, documents, nextDocId, files, now, validator>>

\* variant of the check that flags the application when documents are missing
SubmitReadDocsFlagging(p) ==
  /\ call[p].pc = "submit_docs"
  /\ LET id == call[p].id
         missing == MissingDocuments(Services[ServiceOf(id)].required_documents,
                                     UploadedDocumentTypes(id))
     IN IF Len(missing) > 0
        THEN /\ ret' = [op |-> "submit", kind |-> "MissingDocuments",
                        id |-> id, missing |-> missing]
             /\ call' = [call EXCEPT ![p] = Idle]
             /\ now' = now
             /\ applications' = [applications EXCEPT ![id].status = "REQUIRES_DOCUMENTS"]
        ELSE /\ ret' = NoRet
             /\ applications' = applications
             /\ \E t \in 1..MaxTime :
                  /\ ClockRead(t)
                  /\ call' = [call EXCEPT ![p].pc = "submit_write", ![p].t = t]
  /\ UNCHANGED <<documents, nextDocId, files, calls, validator>>

\* SELECT application_documents WHERE application_id = id, then the check
SubmitReadDocs(p) ==
  /\ call[p].pc = "submit_docs"
  /\ LET id == call[p].id
         missing == MissingDocuments(Services[ServiceOf(id)].required_documents,
                                     UploadedDocumentTypes(id))
     IN IF Len(missing) > 0
        THEN /\ ret' = [op |-> "submit", kind |-> "MissingDocuments",
                        id |-> id, missing |-> missing]
             /\ call' = [call EXCEPT ![p] = Idle]
             /\ now' = now
        ELSE /\ ret' = NoRet
             /\ \E t \in 1..MaxTime :
                  /\ ClockRead(t)
                  /\ call' = [call EXCEPT ![p].pc = "submit_write", ![p].t = t]
  /\ UNCHANGED <<applications, documents, nextDocId, files, calls, validator>>

\* variant of the SET list that leaves updated_at out
SubmitSetStatusOnly(t) == [status |-> "SUBMITTED", submitted_at |-> t]

SubmitSet(t) == [status |-> "SUBMITTED", submitted_at |-> t, updated_at |-> t]

\* UPDATE applications SET ... WHERE id = id RETURNING *
SubmitWrite(p) ==
  /\ call[p].pc = "submit_write"
  /\ LET id == call[p].id
     IN /\ applications' = [applications EXCEPT ![id] =
                              ApplySet(@, SubmitSet(call[p].t))]
        /\ ret' = [op |-> "submit", kind |-> "ok", id |-> id]
  /\ call' = [call EXCEPT ![p] = Idle]
  /\ UNCHANGED <<documents, nextDocId, files, now, calls, validator>>

\* ------------------------------------------------------------ uploadDocument
\* file_name, file_size and mime_type are copied into the row unread and are
\* left out; stored tells whether the caller wrote the file at file_path
UploadInputs == [application_id : AppIds, document_type : DocTypes,
                 file_path : Paths, stored : BOOLEAN]

InsertsInFlight == Cardinality({q \in Procs : call[q].pc = "upload_insert"})

Accepted(input) ==
  /\ ServiceExists(input.application_id)
  /\ input.document_type \in
       Range(Services[ServiceOf(input.application_id)].required_documents)

\* variant of the lookup that accepts any document type
UploadReadAnyType(p, input) ==
  /\ call[p].pc = "idle"
  /\ ServiceExists(input.application_id) => nextDocId + InsertsInFlight <= MaxDocs
  /\ calls' = calls + 1
  /\ files' = IF input.stored THEN files \cup {input.file_path} ELSE files
  /\ IF ~ServiceExists(input.application_id)
     THEN /\ ret' = [op |-> "upload", kind |-> "NotFound",
                     id |-> input.application_id]
          /\ call' = call
     ELSE /\ ret' = NoRet
          /\ call' = [call EXCEPT ![p] = [Idle EXCEPT !.pc = "upload_insert",
                         !.id = input.application_id, !.type = input.document_type,
                         !.path = input.file_path]]
  /\ UNCHANGED <<applications, documents, nextDocId, now, validator>>

UploadRead(p, input) ==
  /\ call[p].pc = "idle"
  /\ Accepted(input) => nextDocId + InsertsInFlight <= MaxDocs
  /\ calls' = calls + 1
  /\ files' = IF input.stored THEN files \cup {input.file_path} ELSE files
  /\ IF ~ServiceExists(input.application_id)
     THEN /\ ret' = [op |-> "upload", kind |-> "NotFound",
                     id |-> input.application_id]
          /\ call' = call
     ELSE IF input.document_type \notin
               Range(Services[ServiceOf(input.application_id)].required_documents)
     THEN /\ ret' = [op |-> "upload", kind |-> "UnsupportedDocumentType",
                     id |-> input.application_id]
          /\ call' = call
     ELSE /\ ret' = NoRet
          /\ call' = [call EXCEPT ![p] = [Idle EXCEPT !.pc = "upload_insert",
                         !.id = input.application_id, !.type = input.document_type,
                         !.path = input.file_path]]
  /\ UNCHANGED <<applications, documents, nextDocId, now, validator>>

\* variant of the insert that submits the application with the upload
UploadInsertSubmitting(p) ==
  /\ call[p].pc = "upload_insert"
  /\ \E t \in 1..MaxTime :
       /\ ClockRead(t)
       /\ LET row == [id |-> nextDocId, application_id |-> call[p].id,
                      document_type |-> call[p].type, file_path |-> call[p].path,
                      uploaded_at |-> t]
          IN /\ documents' = documents \cup {row}
             /\ ret' = [op |-> "upload", kind |-> "ok", id |-> nextDocId]
  /\ applications' = [applications EXCEPT ![call[p].id].status = "SUBMITTED"]
  /\ nextDocId' = nextDocId + 1
  /\ call' = [call EXCEPT ![p] = Idle]
  /\ UNCHANGED <<files, calls, validator>>

\* variant of the insert that keeps one row per application and type
UploadInsertReplacing(p) ==
  /\ call[p].pc = "upload_insert"
  /\ \E t \in 1..MaxTime :
       /\ ClockRead(t)
       /\ LET row == [id |-> nextDocId, application_id |-> call[p].id,
                      document_type |-> call[p].type, file_path |-> call[p].path,
                      uploaded_at |-> t]
              old == {d \in documents : /\ d.application_id = call[p].id
                                        /\ d.document_type = call[p].type}
          IN /\ documents' = (documents \ old) \cup {row}
             /\ ret' = [op |-> "upload", kind |-> "ok", id |-> nextDocId]
  /\ nextDocId' = nextDocId + 1
  /\ call' = [call EXCEPT ![p] = Idle]
  /\ UNCHANGED <<applications, files, calls, validator>>

UploadInsert(p) ==
  /\ call[p].pc = "upload_insert"
  /\ \E t \in 1..MaxTime :
       /\ ClockRead(t)
       /\ LET row == [id |-> nextDocId, application_id |-> call[p].id,
                      document_type |-> call[p].type, file_path |-> call[p].path,
                      uploaded_at |-> t]
          IN /\ documents' = documents \cup {row}
             /\ ret' = [op |-> "upload", kind |-> "ok", id |-> nextDocId]
  /\ nextDocId' = nextDocId + 1
  /\ call' = [call EXCEPT ![p] = Idle]
  /\ UNCHANGED <<applications, files, calls, validator>>

\* ------------------------------------------------------------ deleteDocument
\* SELECT application_documents INNER JOIN applications WHERE documents.id = id
DeleteJoin(documentId) ==
  {d \in documents : d.id = documentId /\ AppExists(d.application_id)}

\* variant of the guard that also lets REQUIRES_DOCUMENTS applications delete
DeletableOrRequiresDocuments(applicationStatus) ==
  applicationStatus \in {"DRAFT", "REQUIRES_DOCUMENTS"}

\* only allow deletion if the application is still in DRAFT status
Deletable(applicationStatus) == applicationStatus = "DRAFT"

\* variant of the lookup that raises when no document has the id
DeleteReadRaising(p, documentId) ==
  /\ call[p].pc = "idle"
  /\ calls' = calls + 1
  /\ IF DeleteJoin(documentId) = {}
     THEN /\ ret' = [op |-> "delete", kind |-> "NotFound", id |-> documentId]
          /\ call' = call
     ELSE LET document == CHOOSE d \in DeleteJoin(documentId) : TRUE
          IN IF ~Deletable(applications[document.application_id].status)
             THEN /\ ret' = [op |-> "delete", kind |-> "false",
                             id |-> documentId]
                  /\ call' = call
             ELSE /\ ret' = NoRet
                  /\ call' = [call EXCEPT ![p] = [Idle EXCEPT !.pc = "delete_exec",
                                 !.id = documentId, !.path = document.file_path]]
  /\ UNCHANGED <<applications, documents, nextDocId, files, now, validator>>

DeleteRead(p, documentId) ==
  /\ call[p].pc = "idle"
  /\ calls' = calls + 1
  /\ IF DeleteJoin(documentId) = {}
     THEN /\ ret' = [op |-> "delete", kind |-> "false", id |-> documentId]
          /\ call' = call
     ELSE LET document == CHOOSE d \in DeleteJoin(documentId) : TRUE
          IN IF ~Deletable(applications[document.application_id].status)
             THEN /\ ret' = [op |-> "delete", kind |-> "false",
                             id |-> documentId]
                  /\ call' = call
             ELSE /\ ret' = NoRet
                  /\ call' = [call EXCEPT ![p] = [Idle EXCEPT !.pc = "delete_exec",
                                 !.id = documentId, !.path = document.file_path]]
  /\ UNCHANGED <<applications, documents, nextDocId, files, now, validator>>

\* variant of the DELETE whose rowCount is not looked at
DeleteExecIgnoringRowCount(p) ==
  /\ call[p].pc = "delete_exec"
  /\ documents' = documents \ {d \in documents : d.id = call[p].id}
  /\ ret' = NoRet
  /\ call' = [call EXCEPT ![p].pc = "delete_unlink"]
  /\ UNCHANGED <<applications, nextDocId, files, now, calls, validator>>

\* DELETE FROM application_documents WHERE id = id
DeleteExec(p) ==
  /\ call[p].pc = "delete_exec"
  /\ LET rows == {d \in documents : d.id = call[p].id}
     IN /\ documents' = documents \ rows
        /\ IF rows = {}
           THEN /\ ret' = [op |-> "delete", kind |-> "false",
                           id |-> call[p].id]
                /\ call' = [call EXCEPT ![p] = Idle]
           ELSE /\ ret' = NoRet
                /\ call' = [call EXCEPT ![p].pc = "delete_unlink"]
  /\ UNCHANGED <<applications, nextDocId, files, now, calls, validator>>

\* variant of the unlink that lets a failure escape to the caller
DeleteUnlinkSurfacing(p) ==
  /\ call[p].pc = "delete_unlink"
  /\ files' = files \ {call[p].path}
  /\ ret' = [op |-> "delete",
             kind |-> IF call[p].path \in files THEN "true" ELSE "FileError",
             id |-> call[p].id, logged |-> call[p].path \notin files]
  /\ call' = [call EXCEPT ![p] = Idle]
  /\ UNCHANGED <<applications, documents, nextDocId, now, calls, validator>>

\* unlink(document.file_path); a failure (no such file) is caught and logged
DeleteUnlink(p) ==
  /\ call[p].pc = "delete_unlink"
  /\ files' = files \ {call[p].path}
  /\ ret' = [op |-> "delete", kind |-> "true", id |-> call[p].id,
             logged |-> call[p].path \notin files]
  /\ call' = [call EXCEPT ![p] = Idle]
  /\ UNCHANGED <<applications, documents, nextDocId, now, calls, validator>>

\* ---------------------------------------------------- getApplicationDocuments
\* variant that looks the application up first
GetApplicationDocumentsChecked(p, applicationId) ==
  /\ call[p].pc = "idle"
  /\ calls' = calls + 1
  /\ ret' = IF AppExists(applicationId)
            THEN [op |-> "getDocuments", kind |-> "ok", id |-> applicationId,
                  rows |-> DocsOf(applicationId)]
            ELSE [op |-> "getDocuments", kind |-> "NotFound", id |-> applicationId]
  /\ UNCHANGED <<applications, documents, nextDocId, files, now, call, validator>>

GetApplicationDocuments(p, applicationId) ==
  /\ call[p].pc = "idle"
  /\ calls' = calls + 1
  /\ ret' = [op |-> "getDocuments", kind |-> "ok", id |-> applicationId,
             rows |-> DocsOf(applicationId)]
  /\ UNCHANGED <<applications, documents, nextDocId, files, now, call, validator>>

\* ------------------------------------------------------------- specifications
\* one step of request slot p; a new call may start while budget is left and
\* takes its request from the given sets
Step(p, budget, creates, updates, uploads) ==
  \/ calls < budget /\ \E input \in creates : CreateApplication(p, input)
  \/ calls < budget /\ \E input \in updates : UpdateApplication(p, input)
  \/ calls < budget /\ \E id \in AppIds : SubmitRead(p, id)
  \/ SubmitReadDocs(p)
  \/ SubmitWrite(p)
  \/ calls < budget /\ \E input \in uploads : UploadRead(p, input)
  \/ UploadInsert(p)
  \/ calls < budget /\ \E id \in DocIds : DeleteRead(p, id)
  \/ DeleteExec(p)
  \/ DeleteUnlink(p)
  \/ calls < budget /\ \E id \in AppIds : GetApplicationDocuments(p, id)

\* requests of the interleaved runs: status changes, one upload path
CoreCreates == {i \in CreateInputs : i.notes = NullText}
CoreUpdates == {i \in StatusInputs : i.status # Undefined /\ i.reviewed_by = UndefinedUser}
CoreUploads == {i \in UploadInputs : i.file_path = "/uploads/a.pdf"}

\* requests of different slots interleave statement by statement
Next == \E p \in Procs : Step(p, MaxCalls, CoreCreates, CoreUpdates, CoreUploads)

Spec == Init /\ [][Next]_vars

\* requests of the sequential runs: every field of an update; a request that
\* supplies a pass-through field supplies one of them and at most one of status
\* and reviewed_by
PassThrough(i) ==
  {f \in {"application_data", "notes", "staff_notes"} : i[f] # Undefined}

SeqUpdates ==
  {i \in UpdateInputs :
     \/ PassThrough(i) = {}
     \/ /\ Cardinality(PassThrough(i)) = 1
        /\ i.status = Undefined \/ i.reviewed_by = UndefinedUser}

\* one request at a time: a single slot issues every call
NextSeq == Step("p1", MaxSeqCalls, CreateInputs, SeqUpdates, CoreUploads)

SpecSeq == Init /\ [][NextSeq]_vars

\* one application's way through its lifecycle, one request at a time: a
\* service that requires one document, updates that move the status between
\* DRAFT and SUBMITTED, uploads of the required document
LifeCreates == {i \in CoreCreates : i.service_id = 3}
LifeUpdates == {i \in CoreUpdates : i.status \in {"DRAFT", "SUBMITTED"}}
LifeUploads == {i \in CoreUploads : i.document_type = "PHOTO" /\ i.stored}

NextLifecycle == Step("p1", MaxLifeCalls, LifeCreates, LifeUpdates, LifeUploads)

SpecLifecycle == Init /\ [][NextLifecycle]_vars

\* the requirement validator alone, on every required list of at most MaxLen
\* tags and every set of uploaded tags
RECURSIVE SeqsUpTo(_, _)
SeqsUpTo(S, n) ==
  IF n = 0 THEN {<<>>}
  ELSE SeqsUpTo(S, n - 1) \cup
       {Append(s, x) : s \in {q \in SeqsUpTo(S, n - 1) : Len(q) = n - 1}, x \in S}

InitMissing ==
  /\ applications = <<>>
  /\ documents = {}
  /\ nextDocId = 1
  /\ files = {}
  /\ now = 0
  /\ call = [p \in Procs |-> Idle]
  /\ ret = NoRet
  /\ calls = 0
  /\ validator \in [required : SeqsUpTo(DocTypes, MaxLen), uploaded : SUBSET DocTypes,
                    missing : {<<>>}, done : {FALSE}]

Validate ==
  /\ ~validator.done
  /\ validator' = [validator EXCEPT
                     !.missing = MissingDocuments(validator.required, validator.uploaded),
                     !.done = TRUE]
  /\ UNCHANGED <<applications, documents, nextDocId, files, now, call, ret, calls>>

NextMissing == Validate

SpecMissing == InitMissing /\ [][NextMissing]_vars

\* ---------------------------------------------------------------- properties
Tables == <<applications, documents, files>>

\* this step is an update call that found its row
Updates == ret'.op = "update" /\ ret'.kind = "ok" /\ calls' = calls + 1

\* this step is slot p's conditional-free write of submit
SubmitWrites(p, id) ==
  call[p].pc = "submit_write" /\ call[p].id = id /\ call'[p].pc = "idle"

\* this step starts a submit call on id
SubmitStarts(id) ==
  /\ calls' = calls + 1
  /\ \/ ret'.op = "submit" /\ ret'.id = id
     \/ \E p \in Procs : call[p].pc = "idle" /\ call'[p].pc = "submit_docs"
                           /\ call'[p].id = id

\* this step starts a delete call on document id
DeleteStarts(id) ==
  /\ calls' = calls + 1
  /\ \/ ret'.op = "delete" /\ ret'.id = id
     \/ \E p \in Procs : call[p].pc = "idle" /\ call'[p].pc = "delete_exec"
                           /\ call'[p].id = id

HasUpload(id, type) ==
  \E d \in documents : d.application_id = id /\ d.document_type = type

RequiredOf(id) == Services[ServiceOf(id)].required_documents

\* C1: submit's write leaves a status that is no longer DRAFT alone and the
\* call fails with InvalidTransition
C1_SubmitWriteIsConditional ==
  [][\A p \in Procs : \A id \in DOMAIN applications :
       (SubmitWrites(p, id) /\ applications[id].status # "DRAFT")
         => /\ applications'[id] = applications[id]
            /\ ret'.kind = "InvalidTransition"]_vars

\* C2: of two overlapping submit calls on one application, the one that
\* writes after the other has returned the SUBMITTED record fails with
\* InvalidTransition
C2_OneSubmitWins ==
  [][\A p \in Procs : \A id \in DOMAIN applications :
       (/\ SubmitWrites(p, id)
        /\ ret.op = "submit" /\ ret.kind = "ok" /\ ret.id = id)
         => ret'.kind = "InvalidTransition"]_vars

\* C3: a document row is removed only while its application is DRAFT
C3_DeleteOnlyFromDraft ==
  [][\A d \in documents :
       d \notin documents' => applications[d.application_id].status = "DRAFT"]_vars

\* C4 as stated: only submit's write moves an application from DRAFT to
\* SUBMITTED
C4_OnlySubmitSubmits ==
  [][\A id \in DOMAIN applications :
       (applications[id].status = "DRAFT" /\ applications'[id].status = "SUBMITTED")
         => \E p \in Procs : SubmitWrites(p, id)]_vars

\* C4 amended: an application moves from DRAFT to SUBMITTED only by submit's
\* write or by an update request whose status is SUBMITTED; no other
\* operation performs the transition
C4_SubmitOrUpdateSubmits ==
  [][\A id \in DOMAIN applications :
       (applications[id].status = "DRAFT" /\ applications'[id].status = "SUBMITTED")
         => \/ \E p \in Procs : SubmitWrites(p, id)
            \/ \E p \in Procs : \E input \in UpdateInputs :
                 /\ input.id = id /\ input.status = "SUBMITTED"
                 /\ UpdateApplication(p, input)]_vars

C4_Witness ==
  /\ calls = 2
  /\ ret.op = "update" /\ ret.kind = "ok"
  /\ applications[ret.id].status = "SUBMITTED"
  /\ DocsOf(ret.id) = {}

C6_NonDraftIsInvalidTransition ==
  [][\A id \in DOMAIN applications :
       (SubmitStarts(id) /\ applications[id].status # "DRAFT")
         => ret'.op = "submit" /\ ret'.kind = "InvalidTransition"]_vars

\* C7: no step of a submit call other than its final write changes a row or a
\* file, so a call that fails has written nothing
C7_FailedSubmitWritesNothing ==
  [][(\/ ret'.op = "submit" /\ ret'.kind \in {"null", "InvalidTransition", "MissingDocuments"}
      \/ \E p \in Procs : /\ call'[p].pc \in {"submit_docs", "submit_write"}
                          /\ call'[p] # call[p])
       => UNCHANGED Tables]_vars

C7_Witness ==
  /\ ret.op = "submit" /\ ret.kind = "MissingDocuments"
  /\ DocsOf(ret.id) # {}

\* first occurrences of s, in order
RECURSIVE Dedup(_)
Dedup(s) ==
  IF s = <<>> THEN <<>>
  ELSE LET front == Dedup(SubSeq(s, 1, Len(s) - 1))
           last == s[Len(s)]
       IN IF last \in Range(front) THEN front ELSE Append(front, last)

\* C8: the missing list is the required list without repeats, minus the
\* uploaded tags
C8_MissingIsDedupMinusUploaded ==
  validator.done =>
    validator.missing =
      SelectSeq(Dedup(validator.required), LAMBDA r : r \notin validator.uploaded)

Position(s, x) == CHOOSE i \in DOMAIN s : s[i] = x

\* C9: a MissingDocuments failure carries exactly the required types without
\* an uploaded document, in the order of the service's required list
C9_MissingListIsOrdered ==
  [][ret'.kind = "MissingDocuments" =>
       LET id == ret'.id
           m == ret'.missing
       IN /\ Range(m) = {r \in Range(RequiredOf(id)) : ~HasUpload(id, r)}
          /\ \A i, j \in DOMAIN m :
               i < j => Position(RequiredOf(id), m[i]) < Position(RequiredOf(id), m[j])]_vars

C9_Witness ==
  /\ ret.op = "submit" /\ ret.kind = "MissingDocuments"
  /\ Len(ret.missing) = 2

C11_DeleteSwallowsFileErrors ==
  [][/\ \A d \in documents :
          /\ (DeleteStarts(d.id) /\ applications[d.application_id].status = "DRAFT")
               => \E p \in Procs : call'[p].pc = "delete_exec" /\ call'[p].id = d.id
          /\ \A p \in Procs :
               (/\ call[p].pc = "delete_exec" /\ call[p].id = d.id
                /\ call'[p] # call[p])
                 => d \notin documents' /\ call'[p].pc = "delete_unlink"
     /\ \A p \in Procs :
          (call[p].pc = "delete_unlink" /\ call'[p].pc = "idle")
            => /\ ret'.op = "delete" /\ ret'.kind = "true"
               /\ documents' = documents
               /\ \A d \in documents' : d.id # call[p].id]_vars

C11_Witness ==
  /\ ret.op = "delete" /\ ret.kind = "true"
  /\ ret.logged
  /\ \A d \in documents : d.id # ret.id

\* C12: a delete call with an id no document carries returns false and
\* changes no document, file or application
C12_UnknownDocumentIsFalse ==
  [][\A id \in DocIds :
       (DeleteStarts(id) /\ \A d \in documents : d.id # id)
         => /\ ret'.op = "delete" /\ ret'.kind = "false"
            /\ UNCHANGED Tables]_vars

C12_Witness ==
  /\ ret.op = "delete" /\ ret.kind = "false"
  /\ ret.id >= nextDocId
  /\ documents # {}
  /\ files # {}

TypesRequired ==
  \A d \in documents :
    /\ ServiceExists(d.application_id)
    /\ d.document_type \in Range(RequiredOf(d.application_id))

\* C13: after every step each stored document's type is in the required list
\* of its application's service, and an upload of a type outside that list
\* fails with UnsupportedDocumentType and inserts no row
C13_StoredTypesAreRequired ==
  [][/\ TypesRequired'
     /\ \A p \in Procs : \A input \in UploadInputs :
          (/\ UploadRead(p, input)
           /\ ServiceExists(input.application_id)
           /\ input.document_type \notin Range(RequiredOf(input.application_id)))
            => /\ ret'.op = "upload" /\ ret'.kind = "UnsupportedDocumentType"
               /\ documents' = documents]_vars

C13_Witness ==
  /\ ret.op = "upload" /\ ret.kind = "UnsupportedDocumentType"
  /\ DocsOf(ret.id) # {}
  /\ TypesRequired

\* C14: an upload request goes on to its INSERT exactly when the application
\* exists and the type is in its service's required list, whatever the status
\* and the rows already stored; a request for an absent application fails with
\* NotFound; no failing request inserts a row; the INSERT ends the call with
\* success and adds exactly one row, with an id no stored row has, to the rows
\* that were there
C14_UploadSucceedsIffRequired ==
  [][/\ \A p \in Procs : \A input \in UploadInputs :
          UploadRead(p, input)
            => /\ documents' = documents
               /\ (call'[p].pc = "upload_insert")
                    <=> (/\ AppExists(input.application_id)
                         /\ ServiceExists(input.application_id)
                         /\ input.document_type
                              \in Range(RequiredOf(input.application_id)))
               /\ call'[p].pc # "upload_insert"
                    => /\ ret'.op = "upload"
                       /\ ret'.kind \in {"NotFound", "UnsupportedDocumentType"}
               /\ ~AppExists(input.application_id) => ret'.kind = "NotFound"
     /\ \A p \in Procs :
          (call[p].pc = "upload_insert" /\ call'[p].pc = "idle")
            => /\ ret'.op = "upload" /\ ret'.kind = "ok"
               /\ \E row \in documents' :
                    /\ row \notin documents
                    /\ documents' = documents \cup {row}
                    /\ row.id = ret'.id
                    /\ \A d \in documents : d.id # row.id
                    /\ row.application_id = call[p].id
                    /\ row.document_type = call[p].type]_vars

C14_Witness ==
  /\ ret.op = "upload" /\ ret.kind = "ok"
  /\ \E d1, d2 \in documents :
       /\ d1.id # d2.id /\ d2.id = ret.id
       /\ d1.application_id = d2.application_id
       /\ d1.document_type = d2.document_type
       /\ applications[d1.application_id].status # "DRAFT"

\* C15: in every state each application's reviewed_at and reviewed_by are
\* both null or both non-null
C15_ReviewFieldsPaired ==
  \A id \in DOMAIN applications :
    (applications[id].reviewed_at = NullTime)
      <=> (applications[id].reviewed_by = NullUser)

\* C16: submitted_at is non-null exactly for the applications that have held
\* status SUBMITTED: a new row has neither; after every step submitted_at is
\* non-null exactly when it was non-null before the step or the status after
\* the step is SUBMITTED (so it is never set back to null)
C16_SubmittedAtIffEverSubmitted ==
  [][\A id \in DOMAIN applications' :
       LET before == /\ id \in DOMAIN applications
                     /\ applications[id].submitted_at # NullTime
       IN (applications'[id].submitted_at # NullTime)
            <=> (before \/ applications'[id].status = "SUBMITTED")]_vars

C16_Witness ==
  \E id \in DOMAIN applications :
    /\ applications[id].submitted_at # NullTime
    /\ applications[id].status = "DRAFT"
    /\ applications[id].submitted_at < applications[id].updated_at

StaffReviewStatuses == {"UNDER_REVIEW", "REQUIRES_DOCUMENTS", "APPROVED", "REJECTED"}

\* C17: an update of an existing application that sets one of the four review
\* statuses and supplies a non-null reviewed_by stores the status and the
\* reviewer and stamps reviewed_at with the time of the call, whatever the
\* status before
C17_ReviewIsStamped ==
  [][Updates =>
       LET input == ret'.input
       IN (/\ input.status \in StaffReviewStatuses
           /\ input.reviewed_by \notin {UndefinedUser, NullUser})
            => /\ applications'[input.id].status = input.status
               /\ applications'[input.id].reviewed_by = input.reviewed_by
               /\ applications'[input.id].reviewed_at = now']_vars

C17_Witness ==
  /\ calls = 2
  /\ ret.op = "update" /\ ret.kind = "ok"
  /\ ret.input.status = "APPROVED" /\ ret.input.reviewed_by \in StaffIds
  /\ applications[ret.id].status = "APPROVED"
  /\ applications[ret.id].reviewed_by = ret.input.reviewed_by
  /\ applications[ret.id].reviewed_at = now
  /\ applications[ret.id].submitted_at = NullTime

\* C18: an update leaves reviewed_at as it was unless the request both sets a
\* status outside {DRAFT, SUBMITTED} and supplies reviewed_by; a reviewed_by
\* supplied without such a status is stored as given and reviewed_at is not
\* stamped
C18_ReviewedAtOnlyWithReviewStatus ==
  [][Updates =>
       LET input == ret'.input
       IN /\ ~(/\ input.status \in StaffReviewStatuses
               /\ input.reviewed_by # UndefinedUser)
             => applications'[input.id].reviewed_at
                  = applications[input.id].reviewed_at
          /\ (/\ input.reviewed_by # UndefinedUser
              /\ input.status \notin StaffReviewStatuses)
             => /\ applications'[input.id].reviewed_by = input.reviewed_by
                /\ applications'[input.id].reviewed_at
                     = applications[input.id].reviewed_at]_vars

C18_Witness ==
  /\ ret.op = "update" /\ ret.kind = "ok"
  /\ ret.input.reviewed_by \in StaffIds /\ ret.input.status = "SUBMITTED"
  /\ applications[ret.id].reviewed_by = ret.input.reviewed_by
  /\ applications[ret.id].reviewed_at = NullTime

\* C19: an update with status SUBMITTED stamps submitted_at with the time of
\* the call whatever it was before; an update with another status or with no
\* status leaves submitted_at as it was
C19_UpdateStampsSubmittedAt ==
  [][Updates =>
       LET input == ret'.input
       IN IF input.status = "SUBMITTED"
          THEN applications'[input.id].submitted_at = now'
          ELSE applications'[input.id].submitted_at
                 = applications[input.id].submitted_at]_vars

C19_Witness ==
  /\ calls = 3
  /\ ret.op = "update" /\ ret.kind = "ok"
  /\ ret.input.status = "SUBMITTED"
  /\ applications[ret.id].submitted_at = now
  /\ applications[ret.id].created_at + 2 = now
  /\ applications[ret.id].reviewed_at = NullTime

Supplied(input, f) ==
  IF f = "reviewed_by" THEN input[f] # UndefinedUser ELSE input[f] # Undefined

\* C20: an update keeps the stored value of each of status, application_data,
\* notes, staff_notes and reviewed_by that the request omits and replaces it
\* by the supplied value otherwise, null included
C20_PartialUpdate ==
  [][Updates =>
       LET input == ret'.input
       IN \A f \in {"status", "application_data", "notes", "staff_notes",
                    "reviewed_by"} :
            applications'[input.id][f] =
              IF Supplied(input, f) THEN input[f] ELSE applications[input.id][f]]_vars

C20_Witness ==
  /\ ret.op = "update" /\ ret.kind = "ok"
  /\ ret.input.notes = NullText /\ ret.input.status = Undefined
  /\ applications[ret.id].notes = NullText
  /\ applications[ret.id].status = "APPROVED"
  /\ applications[ret.id].staff_notes = NullText
  /\ applications[ret.id].updated_at = now

\* this step is an update call
UpdateReturns == ret'.op = "update" /\ calls' = calls + 1

\* C21: an update of an existing application succeeds whatever status the
\* application is in and whatever documents it has, and a supplied status is
\* stored as given
C21_StatusIsFreeForm ==
  [][(UpdateReturns /\ AppExists(ret'.id))
       => /\ ret'.kind = "ok"
          /\ ret'.input.status # Undefined
               => applications'[ret'.id].status = ret'.input.status]_vars

C21_Witness ==
  /\ ret.op = "update" /\ ret.kind = "ok"
  /\ ret.input.status = "SUBMITTED"
  /\ applications[ret.id].status = "SUBMITTED"
  /\ ServiceExists(ret.id)
  /\ Len(MissingDocuments(RequiredOf(ret.id), UploadedDocumentTypes(ret.id))) = 1
  /\ DocsOf(ret.id) # {}

\* C22: a create call appends one row under an id no row had, with status
\* DRAFT, staff_notes, submitted_at, reviewed_at and reviewed_by null,
\* created_at equal to updated_at and the four request fields as given, and
\* leaves the rows that were there as they were
C22_CreateYieldsDraft ==
  [][(ret'.op = "create" /\ calls' = calls + 1)
       => LET id == ret'.id
              input == ret'.input
          IN /\ ret'.kind = "ok"
             /\ id \notin DOMAIN applications
             /\ DOMAIN applications' = DOMAIN applications \cup {id}
             /\ \A old \in DOMAIN applications : applications'[old] = applications[old]
             /\ applications'[id].status = "DRAFT"
             /\ applications'[id].staff_notes = NullText
             /\ applications'[id].submitted_at = NullTime
             /\ applications'[id].reviewed_at = NullTime
             /\ applications'[id].reviewed_by = NullUser
             /\ applications'[id].created_at = applications'[id].updated_at
             /\ applications'[id].created_at # NullTime
             /\ applications'[id].service_id = input.service_id
             /\ applications'[id].applicant_id = input.applicant_id
             /\ applications'[id].application_data = input.application_data
             /\ applications'[id].notes = input.notes]_vars

C22_Witness ==
  /\ ret.op = "create" /\ ret.kind = "ok"
  /\ ret.id = 2
  /\ ret.input.notes = "n1"
  /\ applications[2].notes = "n1"
  /\ applications[1].status # "DRAFT"
  /\ applications[1].service_id = applications[2].service_id

\* C23: a successful update or submit call leaves the application with
\* updated_at equal to the time of the call, and no step changes the
\* created_at of a row
C23_UpdatedAtIsBumped ==
  [][/\ (/\ ret'.op \in {"update", "submit"} /\ ret'.kind = "ok"
         /\ ret' # ret \/ calls' # calls)
          => applications'[ret'.id].updated_at = now'
     /\ \A id \in DOMAIN applications :
          applications'[id].created_at = applications[id].created_at]_vars

C23_Witness ==
  /\ ret.op = "submit" /\ ret.kind = "ok"
  /\ applications[ret.id].updated_at = now
  /\ applications[ret.id].created_at < applications[ret.id].updated_at
  /\ DocsOf(ret.id) # {}

\* C24: an update call with an id no application has returns null and changes
\* no row
C24_UnknownUpdateIsNull ==
  [][(UpdateReturns /\ ~AppExists(ret'.id))
       => ret'.kind = "null" /\ UNCHANGED Tables]_vars

C24_Witness ==
  /\ ret.op = "update" /\ ret.kind = "null"
  /\ ~AppExists(ret.id)
  /\ applications # <<>>

\* C25: a getApplicationDocuments call returns exactly the stored rows whose
\* application_id is the id asked for, the empty set when there is none (also
\* when no application has the id), and changes nothing
C25_DocumentsOfTheApplication ==
  [][(ret'.op = "getDocuments" /\ calls' = calls + 1)
       => /\ ret'.kind = "ok"
          /\ ret'.rows = {d \in documents : d.application_id = ret'.id}
          /\ UNCHANGED Tables]_vars

C25_Witness ==
  /\ ret.op = "getDocuments" /\ ret.kind = "ok"
  /\ ~AppExists(ret.id)
  /\ ret.rows = {}
  /\ documents # {}

\* C26: when submit writes status SUBMITTED every required type of the
\* application has an uploaded document
C26_SubmitWritesOnlyWhenComplete ==
  [][\A p \in Procs : \A id \in DOMAIN applications :
       SubmitWrites(p, id)
         => \A r \in Range(RequiredOf(id)) : HasUpload(id, r)]_vars

\* C28: submit and upload report an application as not found only when no
\* application has the id
C28_NotFoundOnlyWhenAbsent ==
  [][(/\ calls' = calls + 1
      /\ \/ ret'.op = "submit" /\ ret'.kind = "null"
         \/ ret'.op = "upload" /\ ret'.kind = "NotFound")
       => ~AppExists(ret'.id)]_vars

\* this step is slot p's DELETE going on to the unlink
DeleteRemoves(p) == call[p].pc = "delete_exec" /\ call'[p].pc = "delete_unlink"

\* C29: a delete call goes on to the unlink, and so to returning true, only
\* when its own DELETE removed the record; record ids are not handed out
\* twice, so at most one call does for a document; two calls are never both
\* past the DELETE of one document; a file is removed only by a call past its
\* DELETE, when no record has the document's id
C29_OneDeleteWins ==
  [][/\ \A p \in Procs :
          DeleteRemoves(p)
            => /\ \E d \in documents : d.id = call[p].id /\ d \notin documents'
               /\ call[p].id < nextDocId
     /\ \A p, q \in Procs :
          (/\ p # q
           /\ call'[p].pc = "delete_unlink" /\ call'[q].pc = "delete_unlink")
            => call'[p].id # call'[q].id
     /\ \A d \in documents' : d.id < nextDocId'
     /\ (ret'.op = "delete" /\ ret'.kind = "true")
          => \E p \in Procs : /\ call[p].pc = "delete_unlink"
                              /\ call[p].id = ret'.id
                              /\ call'[p].pc = "idle"
     /\ files' # files /\ files' \subseteq files
          => \E p \in Procs :
               /\ call[p].pc = "delete_unlink" /\ call'[p].pc = "idle"
               /\ files' = files \ {call[p].path}
               /\ \A d \in documents : d.id # call[p].id]_vars

C29_Witness ==
  /\ ret.op = "delete" /\ ret.kind = "false"
  /\ \E p \in Procs : call[p].pc = "delete_unlink" /\ call[p].id = ret.id
  /\ \A d \in documents : d.id # ret.id
  /\ files # {}

\* C30: no step lowers the updated_at of an application
C30_UpdatedAtNeverDecreases ==
  [][\A id \in DOMAIN applications :
       applications'[id].updated_at >= applications[id].updated_at]_vars

\* the row shows that the application has held a status other than DRAFT:
\* submitted_at and reviewed_at are written only together with such a status
HasLeftDraft(id) ==
  \/ applications[id].status # "DRAFT"
  \/ applications[id].submitted_at # NullTime
  \/ applications[id].reviewed_at # NullTime

\* C27: no step removes a document of an application that has held a status
\* other than DRAFT
C27_NoDeleteAfterLeavingDraft ==
  [][\A d \in documents :
       d \notin documents' => ~HasLeftDraft(d.application_id)]_vars
====
